---- MODULE Spec2Model ----
(***************************************************************************)
(* Model registry, retention cleanup, training jobs and feature pipeline   *)
(* (DataProcessor) of the respiratory mortality service.                    *)
(*                                                                          *)
(* The registry is the ml_models table (app/models/database.py) plus the   *)
(* models/ directory of joblib binaries.  Every handler works in its own   *)
(* SQLAlchemy session (autocommit=False): its UPDATE and DELETE statements *)
(* stay private to the session until db.commit(), and other sessions read  *)
(* the committed table (READ COMMITTED, the default of the PostgreSQL      *)
(* engine that settings.DATABASE_URL names).  File writes and removals are *)
(* not transactional: they take effect at once.                            *)
(*                                                                          *)
(* Names the handlers use without importing them (func, Query,             *)
(* RespiratoryMortality in endpoints/models.py, MLModel in                 *)
(* tasks/training_tasks.py, List in scripts/model_management.py) are read  *)
(* as the SQLAlchemy / FastAPI / typing names the code evidently means.    *)
(***************************************************************************)
EXTENDS Integers, Sequences, FiniteSets, TLC

\* ------------------------------------------------------------ bounds
\* number of ml_models rows ever inserted
MaxModels == 3
\* number of ml_models rows ever inserted when two sessions run concurrently
MaxRaceModels == 2
\* number of tasks ever sent to the queue
MaxJobs == 1
\* task messages where two runs share the preprocessors directory
MaxPrepJobs == 2
\* rows of a data frame
MaxRows == 2

\* ------------------------------------------------------------ program constants
\* retention_days: the Celery task's timedelta(days=30), the script's default
RETENTION_DAYS == 30
\* the least number of rows a training needs
MIN_RECORDS == 1000

\* self.models of MLService: the supported families (model_type values)
Families == {"random_forest", "logistic_regression"}

\* model_type values callers pass: the supported ones and one that is not
AllFamilies == Families \cup {"svm"}
\* train_model_task, hyperparameter_optimization_task
TaskKinds == {"train", "optimize"}
\* sizes of the batches of rows the table receives, and of the table
BatchSizes == {1, MIN_RECORDS - 1}
TableSizes == {0, MIN_RECORDS - 1, MIN_RECORDS}

\* sessions that can be open at the same time (API workers, Celery workers, scripts)
Procs == {"s1", "s2"}
\* one session: its handlers run one after the other
OneProc == {"s1"}

Ids == 1..MaxModels
\* weighted F1 scores; the code only compares them
F1Values == {1, 2}
\* one tick of the clock: a day more than the retention period
TickDays == RETENTION_DAYS + 1
\* the days the clock shows
ClockValues == {0, TickDays, 2 * TickDays}

VARIABLES
    rows,      \* committed ml_models table: id -> row
    nextId,    \* next value of the ml_models id sequence
    files,     \* names n such that models/<n>.joblib exists
    now,       \* clock, in days
    call,      \* per session: the handler it is running and its locals
    ret,       \* what the step just taken returned to its caller, if it ended a handler
    jobs,      \* Celery tasks sent to the ml_training queue, in order: id -> job
    data,      \* the respiratory_mortality table: how many rows, how many qualify
    prep,      \* models/preprocessors: what scaler.joblib and label_encoders.joblib hold
    proc,      \* a DataProcessor instance: its scaler and its label_encoders
    out,       \* what the DataProcessor call just made returned or raised
    svc        \* an MLService instance: its active_model and active_model_name

vars == <<rows, nextId, files, now, call, ret, jobs, data, prep, proc, out, svc>>
jobVars == <<jobs, data>>
pipeVars == <<prep, proc, out, svc>>

\* ------------------------------------------------------------ helpers
IdleCall == [op |-> "idle", pc |-> "idle"]
NoRet == [op |-> "none"]

\* rows of a table, as a set of ids
OfType(tbl, t) == {i \in DOMAIN tbl : tbl[i].model_type = t}

\* filter(MLModel.model_type == t, MLModel.is_active == True)
ActiveOfType(tbl, t) == {i \in DOMAIN tbl : tbl[i].model_type = t /\ tbl[i].active}

\* rows another open session has updated and not yet committed (row locks)
LockedByOthers(p) ==
    UNION {call[q].deact : q \in {x \in Procs \ {p} : call[x].op \in {"save", "activate"}}}

\* the sequences that list every element of S once: the orders in which a
\* query without ORDER BY may return the rows S
Orders(S) ==
    {s \in [1..Cardinality(S) -> S] : \A i, j \in 1..Cardinality(S) : i # j => s[i] # s[j]}

\* s[keep_best - 1:], a slice that starts one element early
DropOneLess(s, k) ==
    IF k >= Len(s) + 1 THEN << >> ELSE SubSeq(s, IF k = 0 THEN 1 ELSE k, Len(s))
\* s without its first k elements: s[k:]
Drop(s, k) == IF k >= Len(s) THEN << >> ELSE SubSeq(s, k + 1, Len(s))

\* what an UPDATE ... SET is_active = False does to the committed table before
\* the session commits: nothing (sessionmaker(autocommit=False))
UpdateBeforeCommit(tbl, ids) == tbl

\* a commit that loses the UPDATE of the siblings
DeactivateNone(tbl, ids) == tbl
\* the committed table after the session's UPDATE is committed
Deactivate(tbl, ids) ==
    [i \in DOMAIN tbl |-> IF i \in ids THEN [tbl[i] EXCEPT !.active = FALSE] ELSE tbl[i]]

\* a session in the middle of activate_model for type t and a row other than mid
Rivals(p, t, mid) ==
    {q \in Procs \ {p} : /\ call[q].op = "activate"
                         /\ call[q].model_type = t
                         /\ call[q].id # mid}

\* a file that does not exist; the preprocessors directory before any save
NoFile == [exists |-> FALSE]
NoPreprocessors == [scaler |-> NoFile, label_encoders |-> NoFile]
\* StandardScaler() before fit; DataProcessor(): that scaler and no encoder
NotFitted == [fitted |-> FALSE]
DataProcessor == [scaler |-> NotFitted, label_encoders |-> [c \in {} |-> << >>]]
NoOut == [op |-> "none"]
\* active_model of an MLService that has loaded nothing: None
NoModel == [loaded |-> FALSE]
\* MLService(): no active model; has_loaded and got_none tell whether a
\* load_active_model call of the instance has returned a model, and None
MLService ==
    [active_model |-> NoModel, active_model_name |-> NoModel, has_loaded |-> FALSE,
     got_none |-> FALSE]

Init ==
    /\ rows = << >>
    /\ nextId = 1
    /\ files = {}
    /\ now = 0
    /\ call = [p \in Procs |-> IdleCall]
    /\ ret = NoRet
    /\ jobs = << >>
    /\ data = [total |-> 0, qualifying |-> 0]
    /\ prep = NoPreprocessors
    /\ proc = DataProcessor
    /\ out = NoOut
    /\ svc = MLService

\* ------------------------------------------------------------ save_model
\* a script (train_initial_model, retrain_models) calls save_model with a
\* model it trained: nm is the model_name it built, fresh or one already taken
SaveCall(nm, t) ==
    [op |-> "save", pc |-> "dump", model_name |-> nm, model_type |-> t,
     matched |-> {}, deact |-> {}, hadActive |-> ActiveOfType(rows, t) # {},
     overwrote |-> FALSE]

CallSaveModel(p, nm, t, lim) ==
    /\ call[p].op = "idle"
    /\ nextId <= lim
    /\ nm \in {nextId} \cup {rows[i].model_name : i \in DOMAIN rows}
    /\ call' = [call EXCEPT ![p] = SaveCall(nm, t)]
    /\ ret' = NoRet
    /\ UNCHANGED <<rows, nextId, files, now>>
    /\ UNCHANGED jobVars
    /\ UNCHANGED pipeVars

\* joblib.dump(model, models/<model_name>.joblib): it replaces the content of
\* a file that is already there (overwrote)
SaveDump(p) ==
    /\ call[p].op = "save" /\ call[p].pc = "dump"
    /\ files' = files \cup {call[p].model_name}
    /\ call' = [call EXCEPT ![p].pc = "update",
                            ![p].overwrote = call[p].model_name \in files]
    /\ ret' = NoRet
    /\ UNCHANGED <<rows, nextId, now>>
    /\ UNCHANGED jobVars
    /\ UNCHANGED pipeVars

\* the UPDATE statement starts: its snapshot fixes the rows it will visit
UpdateSnapshot(p) ==
    /\ call[p].op \in {"save", "activate"} /\ call[p].pc = "update"
    /\ call' = [call EXCEPT ![p].matched = ActiveOfType(rows, call[p].model_type),
                            ![p].pc = "apply"]
    /\ ret' = NoRet
    /\ UNCHANGED <<rows, nextId, files, now>>
    /\ UNCHANGED jobVars
    /\ UNCHANGED pipeVars

\* the UPDATE locks each row it visits (waiting for a session that holds it) and
\* updates it if its latest committed version still satisfies the filter
UpdateApply(p) ==
    /\ call[p].op \in {"save", "activate"} /\ call[p].pc = "apply"
    /\ call[p].matched \cap LockedByOthers(p) = {}
    /\ LET d == call[p].matched \cap ActiveOfType(rows, call[p].model_type) IN
       /\ call' = [call EXCEPT ![p].deact = d, ![p].pc = "commit"]
       /\ rows' = UpdateBeforeCommit(rows, d)
    /\ ret' = NoRet
    /\ UNCHANGED <<nextId, files, now>>
    /\ UNCHANGED jobVars
    /\ UNCHANGED pipeVars

\* db.add(db_model); db.commit(): INSERT, then COMMIT; a taken model_name
\* (unique=True) fails the flush, which rolls the transaction back.
\* f is metrics['f1_score'] of the model being saved.
Committed(c, f) ==
    LET taken == \E i \in DOMAIN rows : rows[i].model_name = c.model_name
        new == [model_name |-> c.model_name, model_type |-> c.model_type,
                f1_score |-> f, active |-> TRUE, created_at |-> now]
        upd == Deactivate(rows, c.deact)
    IN IF taken
       THEN [rows |-> rows, nextId |-> nextId, outcome |-> "IntegrityError"]
       ELSE [rows |-> [i \in DOMAIN rows \cup {nextId} |->
                         IF i = nextId THEN new ELSE upd[i]],
             nextId |-> nextId + 1, outcome |-> "ok"]

\* how save_model ended, with what the call knew: the name and type it was
\* given, whether the type had an active model, whether the dump replaced a file
SaveReturn(c, outcome) ==
    [op |-> "save", outcome |-> outcome, model_name |-> c.model_name,
     model_type |-> c.model_type, hadActive |-> c.hadActive, overwrote |-> c.overwrote]

SaveCommit(p, f) ==
    /\ call[p].op = "save" /\ call[p].pc = "commit"
    /\ LET r == Committed(call[p], f) IN
       /\ rows' = r.rows
       /\ nextId' = r.nextId
       /\ ret' = SaveReturn(call[p], r.outcome)
    /\ call' = [call EXCEPT ![p] = IdleCall]
    /\ UNCHANGED <<files, now>>
    /\ UNCHANGED jobVars
    /\ UNCHANGED pipeVars

\* ------------------------------------------------------------ activate_model
\* model = db.query(MLModel).filter(MLModel.id == model_id).first(); 404 if none
\* a handler that clears the flags before it looks the id up
CallActivateClearsFirst(p, mid) ==
    /\ call[p].op = "idle"
    /\ IF mid \in DOMAIN rows
       THEN /\ call' = [call EXCEPT ![p] =
                          [op |-> "activate", pc |-> "update", id |-> mid,
                           model_type |-> rows[mid].model_type, matched |-> {},
                           deact |-> {},
                           hadActive |-> ActiveOfType(rows, rows[mid].model_type) # {},
                           rivalWon |-> FALSE]]
            /\ ret' = NoRet
            /\ rows' = rows
       ELSE /\ ret' = [op |-> "activate", outcome |-> "NotFound", id |-> mid]
            /\ rows' = Deactivate(rows, DOMAIN rows)
            /\ UNCHANGED call
    /\ UNCHANGED <<nextId, files, now>>
    /\ UNCHANGED jobVars
    /\ UNCHANGED pipeVars
CallActivate(p, mid) ==
    /\ call[p].op = "idle"
    /\ IF mid \in DOMAIN rows
       THEN /\ call' = [call EXCEPT ![p] =
                          [op |-> "activate", pc |-> "update", id |-> mid,
                           model_type |-> rows[mid].model_type, matched |-> {},
                           deact |-> {},
                           hadActive |-> ActiveOfType(rows, rows[mid].model_type) # {},
                           rivalWon |-> FALSE]]
            /\ ret' = NoRet
       ELSE /\ ret' = [op |-> "activate", outcome |-> "NotFound", id |-> mid]
            /\ UNCHANGED call
    /\ UNCHANGED <<rows, nextId, files, now>>
    /\ UNCHANGED jobVars
    /\ UNCHANGED pipeVars

\* model.is_active = True; db.commit(): UPDATE ... WHERE id = model.id, COMMIT.
\* The flush waits for a session holding the row and fails (StaleDataError)
\* if the row is gone.  Nothing in the handler compares versions, so a
\* concurrent activation that committed meanwhile goes unnoticed.
ActivateCommit(p) ==
    /\ call[p].op = "activate" /\ call[p].pc = "commit"
    /\ call[p].id \notin LockedByOthers(p)
    /\ LET c == call[p] IN
       IF c.id \in DOMAIN rows
       THEN /\ rows' = [Deactivate(rows, c.deact) EXCEPT ![c.id].active = TRUE]
            /\ ret' = [op |-> "activate", outcome |-> "ok", model_type |-> c.model_type,
                       rivalWon |-> c.rivalWon]
            /\ call' = [q \in Procs |->
                          IF q = p THEN IdleCall
                          ELSE IF q \in Rivals(p, c.model_type, c.id)
                               THEN [call[q] EXCEPT !.rivalWon = TRUE]
                               ELSE call[q]]
       ELSE /\ ret' = [op |-> "activate", outcome |-> "StaleDataError",
                       model_type |-> c.model_type, rivalWon |-> c.rivalWon]
            /\ call' = [call EXCEPT ![p] = IdleCall]
            /\ UNCHANGED rows
    /\ UNCHANGED <<nextId, files, now>>
    /\ UNCHANGED jobVars
    /\ UNCHANGED pipeVars

\* ------------------------------------------------------------ cleanup
\* the filter without its is_active condition
OldAny(tbl, cutoff) == {i \in DOMAIN tbl : tbl[i].created_at < cutoff}
\* filter(MLModel.created_at < cutoff_date, MLModel.is_active == False)
OldInactive(tbl, cutoff) ==
    {i \in DOMAIN tbl : tbl[i].created_at < cutoff /\ ~tbl[i].active}

\* the model types of s in the order of their first appearance: the keys of
\* the model_types dict that the grouping loop fills
RECURSIVE TypesInOrder(_, _)
TypesInOrder(tbl, s) ==
    IF s = << >> THEN << >>
    ELSE LET t == tbl[Head(s)].model_type
             rest == SelectSeq(Tail(s), LAMBDA i : tbl[i].model_type # t)
         IN <<t>> \o TypesInOrder(tbl, rest)

\* models.sort(key=lambda m: m.f1_score, reverse=True): a stable sort, so
\* models of equal F1 keep the order the query returned them in
RECURSIVE SortByF1(_, _)
SortByF1(tbl, s) ==
    IF s = << >> THEN << >>
    ELSE LET x == s[Len(s)]
             r == SortByF1(tbl, SubSeq(s, 1, Len(s) - 1))
             ahead == SelectSeq(r, LAMBDA i : tbl[i].f1_score >= tbl[x].f1_score)
             behind == SelectSeq(r, LAMBDA i : tbl[i].f1_score < tbl[x].f1_score)
         IN ahead \o <<x>> \o behind

\* models_to_delete = models[keep_best:] of every type, in the order the loops
\* over model_types.items() and models_to_delete visit them
RECURSIVE ToDelete(_, _, _, _)
ToDelete(tbl, s, ts, k) ==
    IF ts = << >> THEN << >>
    ELSE LET grp == SelectSeq(s, LAMBDA i : tbl[i].model_type = Head(ts))
         IN Drop(SortByF1(tbl, grp), k) \o ToDelete(tbl, s, Tail(ts), k)

ModelsToDelete(tbl, s, k) == ToDelete(tbl, s, TypesInOrder(tbl, s), k)

Range(s) == {s[i] : i \in 1..Len(s)}

\* ModelManager.cleanup_old_models(retention_days, keep_best): the query, the
\* grouping and the sort; old_models is the query's result in the order the
\* database returned it
CallCleanup(p, r, k) ==
    /\ call[p].op = "idle"
    /\ \E old_models \in Orders(OldInactive(rows, now - r)) :
         LET todo == ModelsToDelete(rows, old_models, k) IN
         call' = [call EXCEPT ![p] =
                    [op |-> "cleanup", pc |-> IF todo = << >> THEN "ccommit" ELSE "remove",
                     kind |-> "script", keep_best |-> k, cutoff |-> now - r,
                     todo |-> todo, dels |-> {}, removed |-> {}, loaded |-> rows]]
    /\ ret' = NoRet
    /\ UNCHANGED <<rows, nextId, files, now>>
    /\ UNCHANGED jobVars
    /\ UNCHANGED pipeVars

\* the Celery task cleanup_old_models: every inactive model older than 30 days
CallCeleryCleanup(p) ==
    /\ call[p].op = "idle"
    /\ \E old_models \in Orders(OldInactive(rows, now - RETENTION_DAYS)) :
         call' = [call EXCEPT ![p] =
                    [op |-> "cleanup",
                     pc |-> IF old_models = << >> THEN "ccommit" ELSE "remove",
                     kind |-> "task", keep_best |-> 0, cutoff |-> now - RETENTION_DAYS,
                     todo |-> old_models, dels |-> {}, removed |-> {},
                     loaded |-> rows]]
    /\ ret' = NoRet
    /\ UNCHANGED <<rows, nextId, files, now>>
    /\ UNCHANGED jobVars
    /\ UNCHANGED pipeVars

\* one pass of the deletion loop: os.remove(models/<name>.joblib) if it
\* exists (removed: the names of the files the run has removed), then
\* db.delete(model), which waits for the flush
CleanupRemove(p) ==
    /\ call[p].op = "cleanup" /\ call[p].pc = "remove"
    /\ LET c == call[p]
           m == Head(c.todo)
       IN /\ files' = files \ {c.loaded[m].model_name}
          /\ call' = [call EXCEPT ![p].todo = Tail(c.todo),
                                  ![p].dels = c.dels \cup {m},
                                  ![p].removed =
                                      c.removed \cup ({c.loaded[m].model_name} \cap files),
                                  ![p].pc = IF Tail(c.todo) = << >> THEN "ccommit"
                                            ELSE "remove"]
    /\ ret' = NoRet
    /\ UNCHANGED <<rows, nextId, now>>
    /\ UNCHANGED jobVars
    /\ UNCHANGED pipeVars

\* db.commit(): DELETE FROM ml_models WHERE id = ... for each deleted object
\* (each waits for a session that holds the row), then COMMIT
CleanupCommit(p) ==
    /\ call[p].op = "cleanup" /\ call[p].pc = "ccommit"
    /\ call[p].dels \cap LockedByOthers(p) = {}
    /\ LET c == call[p]
           gone == c.dels \cap DOMAIN rows
       IN /\ rows' = [i \in DOMAIN rows \ gone |-> rows[i]]
          /\ ret' = [op |-> "cleanup", kind |-> c.kind, keep_best |-> c.keep_best,
                     cutoff |-> c.cutoff, deleted |-> gone, removed |-> c.removed]
    /\ call' = [call EXCEPT ![p] = IdleCall]
    /\ UNCHANGED <<nextId, files, now>>
    /\ UNCHANGED jobVars
    /\ UNCHANGED pipeVars

\* an exception inside the try block, from os.remove in the loop or from
\* db.commit(): the script logs it and returns, the task logs it and raises
\* it again; db.close() rolls the pending deletes back, the files removed so
\* far stay removed
CleanupFail(p) ==
    /\ call[p].op = "cleanup" /\ call[p].pc \in {"remove", "ccommit"}
    /\ ret' = [op |-> "cleanup_failed", kind |-> call[p].kind,
               raised |-> call[p].kind = "task", removed |-> call[p].removed]
    /\ call' = [call EXCEPT ![p] = IdleCall]
    /\ UNCHANGED <<rows, nextId, files, now>>
    /\ UNCHANGED jobVars
    /\ UNCHANGED pipeVars

\* ------------------------------------------------------------ readers
\* a save_model or activate_model call for type t is under way, and type t
\* had an active model when that call began
DuringCallWithActive(t) ==
    \E p \in Procs : /\ call[p].op \in {"save", "activate"}
                     /\ call[p].model_type = t
                     /\ call[p].hadActive

\* GET /models/?model_type=t&is_active=true
ListModels(t) ==
    /\ ret' = [op |-> "list_models", model_type |-> t, ids |-> ActiveOfType(rows, t),
               during |-> DuringCallWithActive(t)]
    /\ UNCHANGED <<rows, nextId, files, now, call>>
    /\ UNCHANGED jobVars
    /\ UNCHANGED pipeVars

\* the value load_active_model returns on each of its three branches: None
\* after logger.warning("No active model found ..."), None after
\* logger.error("Model file not found ..."), the unpickled model otherwise
Returned(branch) == IF branch = "model" THEN "model" ELSE "None"

\* MLService.load_active_model(t): the first active row of the type, if any,
\* and its binary, if the file exists
\* result names the branch taken (and the line logged); returned is what the
\* caller gets
LoadActiveModel(t) ==
    /\ IF ActiveOfType(rows, t) = {}
       THEN /\ ret' = [op |-> "load_active_model", model_type |-> t,
                       result |-> "NoActiveRow", returned |-> Returned("NoActiveRow"),
                       during |-> DuringCallWithActive(t)]
            /\ svc' = [svc EXCEPT !.got_none = TRUE]
       ELSE \E i \in ActiveOfType(rows, t) :
              LET branch == IF rows[i].model_name \in files THEN "model"
                            ELSE "FileNotFound"
                  model == [loaded |-> TRUE, name |-> rows[i].model_name]
              IN /\ ret' = [op |-> "load_active_model", model_type |-> t,
                            result |-> branch, returned |-> Returned(branch),
                            id |-> i, during |-> DuringCallWithActive(t)]
                 /\ svc' = IF branch = "model"
                           THEN [svc EXCEPT !.active_model = model,
                                            !.active_model_name = model,
                                            !.has_loaded = TRUE]
                           ELSE [svc EXCEPT !.got_none = TRUE]
    /\ UNCHANGED <<rows, nextId, files, now, call>>
    /\ UNCHANGED jobVars
    /\ UNCHANGED <<prep, proc, out>>

\* MLService(): a new instance takes the place of the one in use
NewMLService ==
    /\ svc' = MLService
    /\ ret' = [op |-> "MLService"]
    /\ UNCHANGED <<rows, nextId, files, now, call>>
    /\ UNCHANGED jobVars
    /\ UNCHANGED <<prep, proc, out>>

\* a predict that goes on to self.active_model.predict whatever active_model is
PredictUnchecked(s) == [outcome |-> "ok", model |-> s.active_model]
\* predict(features): ValueError when self.active_model is None, else the
\* predictions of that model
PredictOf(s) ==
    IF s.active_model = NoModel THEN [outcome |-> "ValueError", model |-> NoModel]
    ELSE [outcome |-> "ok", model |-> s.active_model]
Predict ==
    /\ ret' = [op |-> "predict", outcome |-> PredictOf(svc).outcome,
               model |-> PredictOf(svc).model]
    /\ UNCHANGED <<rows, nextId, files, now, call>>
    /\ UNCHANGED jobVars
    /\ UNCHANGED pipeVars

\* ------------------------------------------------------------ the clock
Tick ==
    /\ now + TickDays \in ClockValues
    /\ now' = now + TickDays
    /\ ret' = NoRet
    /\ UNCHANGED <<rows, nextId, files, call>>
    /\ UNCHANGED jobVars
    /\ UNCHANGED pipeVars

\* ------------------------------------------------------------ training data
\* DataProcessor.save_to_database stores a batch of n rows; deaths and
\* population are written as int(...), so every row of the batch qualifies
SaveToDatabase(n) ==
    /\ data.total + n \in TableSizes
    /\ data' = [total |-> data.total + n, qualifying |-> data.qualifying + n]
    /\ ret' = NoRet
    /\ UNCHANGED <<rows, nextId, files, now, call, jobs>>
    /\ UNCHANGED pipeVars

\* the table receives n rows whose deaths or population is NULL: both columns
\* are nullable, and the tasks' queries filter such rows out
InsertIncomplete(n) ==
    /\ data.total + n \in TableSizes
    /\ data' = [total |-> data.total + n, qualifying |-> data.qualifying]
    /\ ret' = NoRet
    /\ UNCHANGED <<rows, nextId, files, now, call, jobs>>
    /\ UNCHANGED pipeVars

\* ------------------------------------------------------------ jobs
\* no exception raised yet; nothing but progress in the result backend
NoExc == [kind |-> "none", msg |-> "none", after |-> 0]
NoMeta == [kind |-> "none", msg |-> "none"]

\* hyperparameters=None, and a dict given as the set of its items
NoParams == [given |-> FALSE]
Params(items) == [given |-> TRUE, items |-> items]
\* the hyperparameters a caller sends: none, an empty dict, a dict
HyperChoices == {NoParams, Params({}), Params({"n_estimators=50"})}
\* default_params of train_model, .get(model_type, {})
default_params(t) ==
    IF t = "random_forest"
    THEN {"n_estimators=100", "max_depth=10", "min_samples_split=5", "random_state=42"}
    ELSE IF t = "logistic_regression" THEN {"random_state=42", "max_iter=1000"}
    ELSE {}
\* grid_search.best_params_: one point of the grid of the model type
best_params(t) ==
    IF t = "random_forest"
    THEN Params({"n_estimators=200", "max_depth=None", "min_samples_split=2",
                 "min_samples_leaf=1"})
    ELSE Params({"C=1.0", "penalty=l2", "solver=liblinear"})
\* model_class(**hyperparameters) in train_model: the defaults of the type
\* when the caller sent None, else what the caller sent
ConstructedWith(t, h) == IF h.given THEN h.items ELSE default_params(t)
\* `hyperparameters or {}`, the argument of save_model, which json.dumps
\* writes to the row: None and the empty dict both give {}
Recorded(h) == IF h.given THEN h.items ELSE {}

\* a task message as Celery's result backend knows it before a worker takes it:
\* state PENDING.  qualAtSubmit, loaded, split and done record what happened,
\* model_id is what save_model returned to the task, built_with and recorded
\* are the dicts the model was constructed with and save_model was given
NewJob(kind, t, h, via) ==
    [kind |-> kind, family |-> t, via |-> via, qualAtSubmit |-> data.qualifying,
     hyperparameters |-> IF kind = "optimize" THEN NoParams ELSE h,
     built_with |-> {}, recorded |-> {},
     state |-> "PENDING", progress |-> 0, writes |-> << >>, done |-> << >>,
     pc |-> "queued", worker |-> "none", loaded |-> FALSE, split |-> FALSE,
     exc |-> NoExc, meta |-> NoMeta, model_id |-> 0]

\* the body of the answer to an accepted POST /train: model_id 0, a name made
\* of the model type and the clock, zero metrics, no run id; task_result.id
\* is written to the log only
TrainingResponse(t) ==
    [model_id |-> 0, model_name |-> [model_type |-> t, at |-> now],
     f1_score |-> 0, mlflow_run_id |-> "", training_status |-> "started"]

\* POST /train
StartModelTraining(t) ==
    /\ IF t \notin Families
       THEN /\ ret' = [op |-> "start_model_training", family |-> t,
                       outcome |-> "InvalidModelType", counted |-> FALSE,
                       enqueued |-> FALSE, qualifying |-> data.qualifying]
            /\ UNCHANGED jobs
       ELSE IF data.total < MIN_RECORDS
       THEN /\ ret' = [op |-> "start_model_training", family |-> t,
                       outcome |-> "InsufficientData", counted |-> TRUE,
                       enqueued |-> FALSE, qualifying |-> data.qualifying]
            /\ UNCHANGED jobs
       ELSE /\ Len(jobs) < MaxJobs
            /\ \E h \in HyperChoices : jobs' = Append(jobs, NewJob("train", t, h, "api"))
            /\ ret' = [op |-> "start_model_training", family |-> t,
                       outcome |-> "started", counted |-> TRUE,
                       enqueued |-> TRUE, qualifying |-> data.qualifying,
                       task_id |-> Len(jobs) + 1,
                       response |-> TrainingResponse(t)]
    /\ UNCHANGED <<rows, nextId, files, now, call, data>>
    /\ UNCHANGED pipeVars

\* a Celery client sends train_model_task or hyperparameter_optimization_task
\* itself: the task takes whatever model_type it is given, and h as its
\* hyperparameters; lim bounds the number of messages
DelayTask(kind, t, h, lim) ==
    /\ Len(jobs) < lim
    /\ jobs' = Append(jobs, NewJob(kind, t, h, "delay"))
    /\ ret' = NoRet
    /\ UNCHANGED <<rows, nextId, files, now, call, data>>
    /\ UNCHANGED pipeVars

\* percentages of which train_model_task's fourth is below its third
ProgressAtRegressing(kind, stage) ==
    IF kind = "train"
    THEN CASE stage = "start" -> 10 [] stage = "loaded" -> 30
           [] stage = "engineered" -> 50 [] stage = "prepared" -> 40
           [] stage = "trained" -> 90
    ELSE CASE stage = "start" -> 20 [] stage = "prepared" -> 50
           [] stage = "tuned" -> 80
\* the progress percentage written at each point of the two tasks
ProgressAt(kind, stage) ==
    IF kind = "train"
    THEN CASE stage = "start" -> 10 [] stage = "loaded" -> 30
           [] stage = "engineered" -> 50 [] stage = "prepared" -> 70
           [] stage = "trained" -> 90
    ELSE CASE stage = "start" -> 20 [] stage = "prepared" -> 50
           [] stage = "tuned" -> 80

\* a task whose progress writes are lost
UpdateStateOnlyTerminal(job, st, pr) ==
    IF st = "PROGRESS" THEN job
    ELSE [job EXCEPT !.state = st, !.progress = pr,
                     !.writes = Append(@, [state |-> st, progress |-> pr])]
\* current_task.update_state(state=st, meta=...), and the state Celery stores
\* itself when the task returns or raises; a terminal write carries no
\* progress, pr is then the last percentage written
UpdateState(job, st, pr) ==
    [job EXCEPT !.state = st, !.progress = pr,
                !.writes = Append(@, [state |-> st, progress |-> pr])]

Progressed(job, stage) == UpdateState(job, "PROGRESS", ProgressAt(job.kind, stage))
Reached(job, what) == [job EXCEPT !.done = Append(@, what)]
\* an exception of class kind leaves the try block at step msg; after is the
\* number of state writes made before it
Raised(job, kind, msg) ==
    [job EXCEPT !.pc = "except",
                !.exc = [kind |-> kind, msg |-> msg, after |-> Len(job.writes)]]
\* a FAILURE record that holds nothing of the exception
FailureMetaBare(exc) == NoMeta
\* what the FAILURE record holds of the exception: its message ("Training
\* failed: " + str(e)) and its class (in the traceback text, and in the
\* exception Celery stores)
FailureMeta(exc) == [kind |-> exc.kind, msg |-> exc.msg]

\* worker process p has a task in hand
Busy(p) == \E j \in DOMAIN jobs : jobs[j].worker = p /\ jobs[j].pc \notin {"queued", "done"}

\* worker p takes the oldest message of the queue; the task opens its session
\* and writes its first progress
TaskStart(j, p) ==
    /\ j \in DOMAIN jobs /\ jobs[j].pc = "queued"
    /\ \A i \in 1..(j - 1) : jobs[i].pc # "queued"
    /\ ~Busy(p) /\ call[p].op = "idle"
    /\ jobs' = [jobs EXCEPT ![j] =
                  [Progressed(@, "start") EXCEPT !.pc = "load", !.worker = p]]
    /\ ret' = NoRet
    /\ UNCHANGED <<rows, nextId, files, now, call, data>>
    /\ UNCHANGED pipeVars

\* pd.read_sql of the rows with deaths and population (ok is whether it
\* returns); train_model_task then checks len(df) < 1000
TaskLoadData(j, ok) ==
    /\ j \in DOMAIN jobs /\ jobs[j].pc = "load"
    /\ LET job == [jobs[j] EXCEPT !.loaded = TRUE] IN
       jobs' = [jobs EXCEPT ![j] =
                  IF ~ok THEN Raised(jobs[j], "Exception", "data load")
                  ELSE IF job.kind = "optimize"
                  THEN [Reached(job, "data loaded") EXCEPT !.pc = "engineer"]
                  ELSE IF data.qualifying < MIN_RECORDS
                  THEN Raised(job, "ValueError", "Insufficient data for training")
                  ELSE [Progressed(Reached(job, "data loaded"), "loaded")
                          EXCEPT !.pc = "engineer"]]
    /\ ret' = NoRet
    /\ UNCHANGED <<rows, nextId, files, now, call, data>>
    /\ UNCHANGED pipeVars

\* data_processor.engineer_features(df); ok is whether it returns
TaskEngineer(j, ok) ==
    /\ j \in DOMAIN jobs /\ jobs[j].pc = "engineer"
    /\ LET job == jobs[j] IN
       jobs' = [jobs EXCEPT ![j] =
                  IF ~ok THEN Raised(job, "Exception", "feature engineering")
                  ELSE IF job.kind = "optimize"
                  THEN [Reached(job, "features engineered") EXCEPT !.pc = "prepare"]
                  ELSE [Progressed(Reached(job, "features engineered"), "engineered")
                          EXCEPT !.pc = "prepare"]]
    /\ ret' = NoRet
    /\ UNCHANGED <<rows, nextId, files, now, call, data>>
    /\ UNCHANGED pipeVars

\* what one run of a task has fitted, as a file of models/preprocessors
FittedBy(j) == [exists |-> TRUE, run |-> j]
\* how prepare_model_data and save_preprocessors can end: both return, one of
\* them raises before anything is written, or the second joblib.dump raises
PrepareResults == {"ok", "raises", "raises after scaler.joblib"}

\* prepare_model_data and, in train_model_task only, save_preprocessors to
\* the fixed directory models/preprocessors
TaskPrepare(j, res) ==
    /\ j \in DOMAIN jobs /\ jobs[j].pc = "prepare"
    /\ res = "raises after scaler.joblib" => jobs[j].kind = "train"
    /\ LET job == jobs[j] IN
       jobs' = [jobs EXCEPT ![j] =
                  IF res = "raises"
                  THEN Raised(job, "Exception", "model data preparation")
                  ELSE IF res # "ok" THEN Raised(job, "Exception", "preprocessor save")
                  ELSE [Progressed(job, "prepared") EXCEPT
                          !.pc = IF job.kind = "optimize" THEN "tune" ELSE "train"]]
    /\ prep' = IF jobs[j].kind = "optimize" \/ res = "raises" THEN prep
               ELSE IF res = "ok"
               THEN [scaler |-> FittedBy(j), label_encoders |-> FittedBy(j)]
               ELSE [prep EXCEPT !.scaler = FittedBy(j)]
    /\ ret' = NoRet
    /\ UNCHANGED <<rows, nextId, files, now, call, data>>
    /\ UNCHANGED <<proc, out, svc>>

\* ml_service.hyperparameter_tuning: self.models[model_type] comes before the
\* grid search
TaskTune(j, ok) ==
    /\ j \in DOMAIN jobs /\ jobs[j].pc = "tune"
    /\ LET job == jobs[j] IN
       jobs' = [jobs EXCEPT ![j] =
                  IF job.family \notin Families THEN Raised(job, "KeyError", job.family)
                  ELSE IF ~ok THEN Raised(job, "Exception", "tuning")
                  ELSE [Progressed(job, "tuned") EXCEPT
                          !.pc = "train", !.hyperparameters = best_params(job.family)]]
    /\ ret' = NoRet
    /\ UNCHANGED <<rows, nextId, files, now, call, data>>
    /\ UNCHANGED pipeVars

\* how a call of ml_service.train_model can go: it returns, the fit raises,
\* the MLflow server cannot be reached, or a logging call to MLflow raises
TrainResults == {"ok", "raises", "tracker unavailable", "tracker raises"}
\* ml_service.train_model: mlflow.set_experiment, train_test_split,
\* mlflow.start_run, self.models[model_type], fit and evaluation, then
\* mlflow.log_params, log_metrics and log_model; no call to MLflow is guarded
TaskTrain(j, res) ==
    /\ j \in DOMAIN jobs /\ jobs[j].pc = "train"
    /\ LET job == [jobs[j] EXCEPT !.split = TRUE]
           built == [job EXCEPT
                       !.built_with = ConstructedWith(job.family, job.hyperparameters)]
       IN
       jobs' = [jobs EXCEPT ![j] =
                  IF res = "tracker unavailable"
                  THEN Raised(jobs[j], "MlflowException", "set_experiment")
                  ELSE IF job.family \notin Families
                  THEN Raised(job, "KeyError", job.family)
                  ELSE IF res = "raises" THEN Raised(built, "Exception", "training")
                  ELSE IF res = "tracker raises"
                  THEN Raised(built, "MlflowException", "log_params")
                  ELSE IF job.kind = "optimize"
                  THEN [Reached(built, "model trained") EXCEPT !.pc = "save"]
                  ELSE [Progressed(Reached(built, "model trained"), "trained")
                          EXCEPT !.pc = "save"]]
    /\ ret' = NoRet
    /\ UNCHANGED <<rows, nextId, files, now, call, data>>
    /\ UNCHANGED pipeVars

\* the task builds model_name from the model type and the second of the clock
\* and calls ml_service.save_model with its session
TaskSaveModel(j, nm) ==
    /\ j \in DOMAIN jobs /\ jobs[j].pc = "save"
    /\ nm \in {nextId} \cup {rows[i].model_name : i \in OfType(rows, jobs[j].family)}
    /\ call' = [call EXCEPT ![jobs[j].worker] = SaveCall(nm, jobs[j].family)]
    /\ jobs' = [jobs EXCEPT ![j].pc = "saving",
                            ![j].recorded = Recorded(jobs[j].hyperparameters)]
    /\ ret' = NoRet
    /\ UNCHANGED <<rows, nextId, files, now, data>>
    /\ UNCHANGED pipeVars

\* save_model's db.commit() inside the task
TaskSaveCommit(j, f) ==
    /\ j \in DOMAIN jobs /\ jobs[j].pc = "saving"
    /\ call[jobs[j].worker].op = "save" /\ call[jobs[j].worker].pc = "commit"
    /\ LET r == Committed(call[jobs[j].worker], f) IN
       /\ rows' = r.rows
       /\ nextId' = r.nextId
       /\ ret' = SaveReturn(call[jobs[j].worker], r.outcome)
       /\ jobs' = [jobs EXCEPT ![j] =
                     IF r.outcome = "ok"
                     THEN [Reached(@, "model saved") EXCEPT
                             !.pc = "return", !.model_id = nextId]
                     ELSE Raised(@, r.outcome, "model save")]
    /\ call' = [call EXCEPT ![jobs[j].worker] = IdleCall]
    /\ UNCHANGED <<files, now, data>>
    /\ UNCHANGED pipeVars

\* return result: Celery stores SUCCESS
TaskReturn(j) ==
    /\ j \in DOMAIN jobs /\ jobs[j].pc = "return"
    /\ jobs' = [jobs EXCEPT ![j] =
                  [UpdateState(@, "SUCCESS", @.progress) EXCEPT !.pc = "done"]]
    /\ ret' = NoRet
    /\ UNCHANGED <<rows, nextId, files, now, call, data>>
    /\ UNCHANGED pipeVars

\* except Exception: current_task.update_state(state="FAILURE", ...)
TaskExcept(j) ==
    /\ j \in DOMAIN jobs /\ jobs[j].pc = "except"
    /\ jobs' = [jobs EXCEPT ![j] =
                  [UpdateState(@, "FAILURE", @.progress) EXCEPT
                     !.pc = "raise", !.meta = FailureMeta(jobs[j].exc)]]
    /\ ret' = NoRet
    /\ UNCHANGED <<rows, nextId, files, now, call, data>>
    /\ UNCHANGED pipeVars

\* raise: the exception leaves the task and Celery stores FAILURE
TaskRaise(j) ==
    /\ j \in DOMAIN jobs /\ jobs[j].pc = "raise"
    /\ jobs' = [jobs EXCEPT ![j] =
                  [UpdateState(@, "FAILURE", @.progress) EXCEPT
                     !.pc = "done", !.meta = FailureMeta(jobs[j].exc)]]
    /\ ret' = NoRet
    /\ UNCHANGED <<rows, nextId, files, now, call, data>>
    /\ UNCHANGED pipeVars

\* ------------------------------------------------------------ DataProcessor
\* columns of a frame read from the CSV file or from respiratory_mortality
AllColumns ==
    {"county", "ten_year_age_groups", "gender", "year", "icd_10_113_cause_list",
     "deaths", "population", "crude_rate", "state"}
\* self.categorical_columns, in the order the loops visit them
categorical_columns ==
    <<"county", "ten_year_age_groups", "gender", "icd_10_113_cause_list", "state">>
\* feature_columns of prepare_model_data: the columns of X, in this order
feature_columns ==
    <<"county", "ten_year_age_groups", "gender", "year", "population", "state">>
\* the columns StandardScaler is fitted on and applied to
scaled_columns == <<"year", "population">>
\* required_columns of _validate_data
required_columns ==
    {"county", "ten_year_age_groups", "gender", "year", "icd_10_113_cause_list",
     "deaths", "population", "state"}

\* the category labels of the sample rows in the order np.unique sorts them
Alphabet ==
    <<"65-74 years", "75-84 years", "California",
      "Chronic lower respiratory diseases", "Female", "Kent", "Male", "Oregon",
      "York">>

\* records a frame is made of; nulls names the columns that hold no value
SampleRows ==
    {[county |-> "Kent", ten_year_age_groups |-> "65-74 years", gender |-> "Female",
      year |-> 2019, icd_10_113_cause_list |-> "Chronic lower respiratory diseases",
      deaths |-> 10, population |-> 1000, crude_rate |-> "1000.0",
      state |-> "California", nulls |-> {}],
     [county |-> "York", ten_year_age_groups |-> "75-84 years", gender |-> "Male",
      year |-> 2020, icd_10_113_cause_list |-> "Chronic lower respiratory diseases",
      deaths |-> 20, population |-> 2000, crude_rate |-> "1000.0",
      state |-> "Oregon", nulls |-> {}]}

\* the column sets of the frames: every column, no cause column, no county
ColumnSets ==
    {AllColumns, AllColumns \ {"icd_10_113_cause_list"}, AllColumns \ {"county"}}
\* which cells of a row of a raw file can be empty
NullChoices == {{}, {"deaths"}, {"crude_rate"}, {"county", "crude_rate"}}

SeqsUpTo(S, n) == UNION {[1..k -> S] : k \in 1..n}
\* frames without a null, and frames as a CSV file can hold them
Frames ==
    {[columns |-> cs, rows |-> rs] : cs \in ColumnSets, rs \in SeqsUpTo(SampleRows, MaxRows)}
\* the frames that have every column, as read from the table
FullFrames == {df \in Frames : df.columns = AllColumns}
RawRows == {[r EXCEPT !.nulls = ns] : r \in SampleRows, ns \in NullChoices}
RawFrames ==
    {[columns |-> cs, rows |-> rs] :
        cs \in {AllColumns, AllColumns \ {"crude_rate"}, AllColumns \ {"county"}},
        rs \in SeqsUpTo(RawRows, MaxRows)}

SeqRange(s) == {s[i] : i \in 1..Len(s)}
Column(df, c) == [i \in 1..Len(df.rows) |-> df.rows[i][c]]

\* an encoder whose classes_ keeps the labels in the order they first appear
ClassesUnsorted(df, c) ==
    LET col == Column(df, c)
        first(i) == \A k \in 1..(i - 1) : col[k] # col[i]
        idx == SelectSeq([i \in 1..Len(col) |-> i], first)
    IN [k \in 1..Len(idx) |-> col[idx[k]]]
\* LabelEncoder.fit: classes_ is the sorted array of the distinct labels
Classes(df, c) ==
    LET present(v) == v \in SeqRange(Column(df, c)) IN SelectSeq(Alphabet, present)
\* LabelEncoder.transform of one label: its position in classes_, from 0
Code(classes, v) == (CHOOSE k \in 1..Len(classes) : classes[k] = v) - 1
\* LabelEncoder.fit_transform of one label of a column: np.unique's inverse,
\* the number of distinct labels of the column that sort before it
Pos(v) == CHOOSE k \in 1..Len(Alphabet) : Alphabet[k] = v
FitCode(df, c, v) == Cardinality({w \in SeqRange(Column(df, c)) : Pos(w) < Pos(v)})
Unseen(classes, df, c) == SeqRange(Column(df, c)) \ SeqRange(classes)

RECURSIVE Sum(_)
Sum(s) == IF s = << >> THEN 0 ELSE Head(s) + Sum(Tail(s))
Squares(s) == [i \in 1..Len(s) |-> s[i] * s[i]]
\* StandardScaler.fit: per column the number of samples, their sum and the sum
\* of their squares, which give mean_ and scale_
FitScaler(df) ==
    [fitted |-> TRUE, n |-> Len(df.rows),
     sum |-> [k \in 1..Len(scaled_columns) |-> Sum(Column(df, scaled_columns[k]))],
     sq |-> [k \in 1..Len(scaled_columns) |->
                Sum(Squares(Column(df, scaled_columns[k])))]]
\* StandardScaler.transform of one value of the k-th scaled column:
\* (x - mean_) / scale_ = num / sqrt(var), and num / n where var is 0 (scale_
\* is then 1), with num = n x - sum and var = n sq - sum^2
Scale(sc, k, x) ==
    [num |-> sc.n * x - sc.sum[k], var |-> sc.n * sc.sq[k] - sc.sum[k] * sc.sum[k],
     n |-> sc.n]

RECURSIVE Insert(_, _)
Insert(x, s) ==
    IF s = << >> THEN <<x>>
    ELSE IF x <= Head(s) THEN <<x>> \o s
    ELSE <<Head(s)>> \o Insert(x, Tail(s))
RECURSIVE SortInts(_)
SortInts(s) == IF s = << >> THEN << >> ELSE Insert(Head(s), SortInts(Tail(s)))
\* twice Series.median(): the middle value, or the mean of the two middle ones
TwiceMedian(s) ==
    LET o == SortInts(s)
        n == Len(s)
    IN IF n % 2 = 1 THEN 2 * o[(n + 1) \div 2] ELSE o[n \div 2] + o[n \div 2 + 1]
\* y = (deaths > deaths.median()).astype(int)
Labels(df) ==
    LET d == Column(df, "deaths") IN
    [i \in 1..Len(d) |-> IF 2 * d[i] > TwiceMedian(d) THEN 1 ELSE 0]

\* the encoders that refit the columns of the frame even when asked to
\* transform
EncodersAfterRefitting(enc, df, fit) ==
    LET cats == {c \in SeqRange(categorical_columns) : c \in df.columns} IN
    [c \in DOMAIN enc \cup cats |-> IF c \in cats THEN Classes(df, c) ELSE enc[c]]
\* self.label_encoders after the first loop of prepare_model_data: the fit
\* branch stores a new encoder for every categorical column the frame has,
\* the transform branch stores nothing
EncodersAfter(enc, df, fit) ==
    LET cats == {c \in SeqRange(categorical_columns) : c \in df.columns} IN
    IF fit
    THEN [c \in DOMAIN enc \cup cats |-> IF c \in cats THEN Classes(df, c) ELSE enc[c]]
    ELSE enc

\* the columns the first loop encodes: on transform only those that have an
\* encoder
Encoded(enc, df) ==
    {c \in SeqRange(categorical_columns) : c \in df.columns /\ c \in DOMAIN enc}

\* one cell of X: the code of a categorical column that was encoded, the
\* scaled value of year and population, the value of the frame otherwise
Cell(enc, sc, df, fit, i, k) ==
    LET c == feature_columns[k]
        v == df.rows[i][c]
    IN IF c \in Encoded(enc, df)
       THEN [code |-> IF fit THEN FitCode(df, c, v) ELSE Code(enc[c], v)]
       ELSE IF c \in SeqRange(scaled_columns)
       THEN LET s == CHOOSE s \in 1..Len(scaled_columns) : scaled_columns[s] = c
            IN Scale(sc, s, v)
       ELSE [raw |-> v]
\* X: one row per record, its cells in the order of feature_columns
Matrix(enc, sc, df, fit) ==
    [i \in 1..Len(df.rows) |->
        [k \in 1..Len(feature_columns) |-> Cell(enc, sc, df, fit, i, k)]]

\* DataProcessor(): a new instance
NewDataProcessor ==
    /\ proc' = DataProcessor
    /\ out' = [op |-> "DataProcessor"]
    /\ ret' = NoRet
    /\ UNCHANGED <<rows, nextId, files, now, call, jobs, data, prep, svc>>

\* prepare_model_data(df, fit_encoders=fit) in the order of its statements:
\* the encoder loop (on transform a label that the encoder has not seen
\* raises ValueError), X = df_encoded[feature_columns] (KeyError for a missing
\* column), the scaler (NotFittedError on transform before fit), then y
PrepareModelData(df, fit) ==
    LET enc == EncodersAfter(proc.label_encoders, df, fit)
        unseen == \E c \in Encoded(enc, df) : Unseen(enc[c], df, c) # {}
        missing == SeqRange(feature_columns) \ df.columns # {}
        sc == IF fit THEN FitScaler(df) ELSE proc.scaler
        raised(kind, p) ==
            /\ proc' = p
            /\ out' = [op |-> "prepare_model_data", fit_encoders |-> fit, df |-> df,
                       outcome |-> kind, X |-> << >>, y |-> << >>]
    IN /\ IF unseen THEN raised("ValueError", proc)
          ELSE IF missing THEN raised("KeyError", [proc EXCEPT !.label_encoders = enc])
          ELSE IF ~sc.fitted THEN raised("NotFittedError", proc)
          ELSE /\ proc' = [scaler |-> sc, label_encoders |-> enc]
               /\ out' = [op |-> "prepare_model_data", fit_encoders |-> fit, df |-> df,
                          outcome |-> "ok", X |-> Matrix(enc, sc, df, fit), y |-> Labels(df)]
       /\ ret' = NoRet
       /\ UNCHANGED <<rows, nextId, files, now, call, jobs, data, prep, svc>>

\* the content of a file joblib.dump wrote
Dumped(v) == [exists |-> TRUE, value |-> v]
\* save_preprocessors("models/preprocessors"): os.makedirs, then one
\* joblib.dump for the scaler and one for the encoders
SavePreprocessors(res) ==
    /\ prep' = IF res = "raises" THEN prep
               ELSE IF res = "ok"
               THEN [scaler |-> Dumped(proc.scaler),
                     label_encoders |-> Dumped(proc.label_encoders)]
               ELSE [prep EXCEPT !.scaler = Dumped(proc.scaler)]
    /\ out' = [op |-> "save_preprocessors", outcome |-> res]
    /\ ret' = NoRet
    /\ UNCHANGED <<rows, nextId, files, now, call, jobs, data, proc, svc>>

\* load_preprocessors("models/preprocessors"): self.scaler is assigned before
\* the encoders are read; joblib.load of a missing file raises
LoadPreprocessors ==
    /\ IF ~prep.scaler.exists
       THEN /\ proc' = proc
            /\ out' = [op |-> "load_preprocessors", outcome |-> "FileNotFoundError"]
       ELSE IF ~prep.label_encoders.exists
       THEN /\ proc' = [proc EXCEPT !.scaler = prep.scaler.value]
            /\ out' = [op |-> "load_preprocessors", outcome |-> "FileNotFoundError"]
       ELSE /\ proc' = [scaler |-> prep.scaler.value,
                        label_encoders |-> prep.label_encoders.value]
            /\ out' = [op |-> "load_preprocessors", outcome |-> "ok"]
    /\ ret' = NoRet
    /\ UNCHANGED <<rows, nextId, files, now, call, jobs, data, prep, svc>>

\* whether a row has a null in one of the columns cs
HasNull(r, cs) == r.nulls \cap cs # {}
\* DataFrame.dropna(): the rows without a null in any column of the frame
DropNa(df) == LET complete(r) == ~HasNull(r, df.columns) IN SelectSeq(df.rows, complete)

\* a check that looks for the required columns among those the frame has
MissingColumnsOfFrame(df) == (required_columns \cap df.columns) \ df.columns
\* missing_cols = set(required_columns) - set(df.columns)
MissingColumns(df) == required_columns \ df.columns

\* _validate_data(df): dropna, the warning with the number of rows dropped
\* (logged is that number, 0 when nothing is logged), then the check of the
\* required columns
ValidateData(df) ==
    /\ LET kept == DropNa(df) IN
       out' = [op |-> "_validate_data", df |-> df,
               outcome |-> IF MissingColumns(df) # {} THEN "ValueError" ELSE "ok",
               result |-> kept, logged |-> Len(df.rows) - Len(kept)]
    /\ ret' = NoRet
    /\ UNCHANGED <<rows, nextId, files, now, call, jobs, data, prep, proc, svc>>

\* ---- engineer_features
\* the deaths and population counts of the records engineer_features is
\* applied to, by county: rates of 250, 300 and 1000 per 100000
Counts ==
    {[county |-> "Kent", deaths |-> 25, population |-> 10000],
     [county |-> "York", deaths |-> 150, population |-> 50000],
     [county |-> "Kent", deaths |-> 10, population |-> 1000]}
EngineerRows ==
    UNION {{[r EXCEPT !.deaths = c.deaths, !.population = c.population] :
               r \in {s \in SampleRows : s.county = c.county}} : c \in Counts}
\* the numbers of rows of the frames engineer_features is applied to
EngineerLengths == {1, 2, 3}
\* validated frames: every column, no state column, no crude_rate column
EngineerFrames ==
    {[columns |-> cs, rows |-> rs] :
        cs \in {AllColumns, AllColumns \ {"state"}, AllColumns \ {"crude_rate"}},
        rs \in UNION {[1..k -> EngineerRows] : k \in EngineerLengths}}

RECURSIVE GCD(_, _)
GCD(a, b) == IF b = 0 THEN a ELSE GCD(b, a % b)
\* the number n / d (n >= 0, d > 0) in lowest terms
Rat(n, d) == LET g == GCD(n, d) IN [num |-> n \div g, den |-> d \div g]
Less(a, b) == a.num * b.den < b.num * a.den
RECURSIVE InsertRat(_, _)
InsertRat(x, s) ==
    IF s = << >> THEN <<x>>
    ELSE IF ~Less(Head(s), x) THEN <<x>> \o s
    ELSE <<Head(s)>> \o InsertRat(x, Tail(s))
RECURSIVE SortRats(_)
SortRats(s) == IF s = << >> THEN << >> ELSE InsertRat(Head(s), SortRats(Tail(s)))
\* Series.quantile(qn / qd), linear interpolation: the value at position
\* (n - 1) qn / qd of the sorted values
Quantile(s, qn, qd) ==
    LET o == SortRats(s)
        pos == (Len(s) - 1) * qn
        lo == pos \div qd + 1
        f == pos % qd
        hi == IF f = 0 THEN lo ELSE lo + 1
    IN Rat((qd - f) * o[lo].num * o[hi].den + f * o[hi].num * o[lo].den,
           qd * o[lo].den * o[hi].den)
\* the bin edges of pd.qcut(s, q): the quantiles 0, 1/q, ..., 1
Bins(s, q) == [k \in 1..(q + 1) |-> Quantile(s, k - 1, q)]
\* pd.qcut(s, q, labels): ValueError when two edges are equal, else for each
\* value the number of the bin (edge[k] < x <= edge[k+1], the lowest edge
\* included) that takes the k-th label
QCut(s, q) ==
    LET b == Bins(s, q)
        below(x) == Cardinality({k \in 1..(q + 1) : Less(b[k], x)})
    IN [ok |-> \A j, k \in 1..(q + 1) : j # k => b[j] # b[k],
        ids |-> [i \in 1..Len(s) |-> IF below(s[i]) = 0 THEN 1 ELSE below(s[i])]]
\* a rate per thousand
MortalityRatePerThousand(r) == Rat(r.deaths * 1000, r.population)
\* (df['deaths'] / df['population']) * 100000 of one row
MortalityRate(r) == Rat(r.deaths * 100000, r.population)
west_coast_states == {"California", "Oregon", "Washington"}
east_coast_states == {"New York", "Massachusetts", "Florida"}

\* engineer_features(df): the rate, the flag against the 0.75 quantile of the
\* rates of this frame, is_male, the two qcut columns (buckets numbered as
\* their labels are listed), then the coast flags (KeyError without a state
\* column); the instance is not read and not written
EngineerFeatures(df) ==
    LET n == Len(df.rows)
        rate == [i \in 1..n |-> MortalityRate(df.rows[i])]
        pop == [i \in 1..n |-> Rat(df.rows[i].population, 1)]
        threshold == Quantile(rate, 3, 4)
        mc == QCut(rate, 5)
        pd == QCut(pop, 3)
        raised(kind) ==
            out' = [op |-> "engineer_features", df |-> df, outcome |-> kind,
                    result |-> << >>]
    IN /\ IF ~mc.ok \/ ~pd.ok THEN raised("ValueError")
          ELSE IF "state" \notin df.columns THEN raised("KeyError")
          ELSE out' = [op |-> "engineer_features", df |-> df, outcome |-> "ok",
                       result |-> [i \in 1..n |->
                          [mortality_rate |-> rate[i],
                           high_mortality |-> IF Less(threshold, rate[i]) THEN 1 ELSE 0,
                           is_male |-> IF df.rows[i].gender = "Male" THEN 1 ELSE 0,
                           mortality_category |-> mc.ids[i],
                           population_density |-> pd.ids[i],
                           is_west_coast |->
                               IF df.rows[i].state \in west_coast_states THEN 1 ELSE 0,
                           is_east_coast |->
                               IF df.rows[i].state \in east_coast_states THEN 1 ELSE 0]]]
       /\ ret' = NoRet
       /\ UNCHANGED <<rows, nextId, files, now, call, jobs, data, prep, proc, svc>>

\* ------------------------------------------------------------ specifications
\* retention_days and keep_best values the cleanup script is called with
RetentionChoices == {RETENTION_DAYS}
KeepChoices == {0, 1, 2}

\* save_model and activate_model, step by step
WriteStep(p, lim) ==
    \/ \E nm \in Ids, t \in Families : CallSaveModel(p, nm, t, lim)
    \/ SaveDump(p)
    \/ UpdateSnapshot(p)
    \/ UpdateApply(p)
    \/ \E f \in F1Values : SaveCommit(p, f)
    \/ \E mid \in Ids : CallActivate(p, mid)
    \/ ActivateCommit(p)

\* the two cleanups, step by step
CleanupStep(p) ==
    \/ \E r \in RetentionChoices, k \in KeepChoices : CallCleanup(p, r, k)
    \/ CallCeleryCleanup(p)
    \/ CleanupRemove(p)
    \/ CleanupCommit(p)
    \/ CleanupFail(p)

Read ==
    \/ \E t \in Families : ListModels(t)
    \/ \E t \in Families : LoadActiveModel(t)

\* two sessions that save and activate models, their steps interleaved
Next == \E p \in Procs : WriteStep(p, MaxRaceModels)
Spec == Init /\ [][Next]_vars

\* one session: save_model, activate_model and the cleanups run one after the
\* other, while the clock advances
NextSeq == (\E p \in OneProc : WriteStep(p, MaxModels) \/ CleanupStep(p)) \/ Tick
SpecSeq == Init /\ [][NextSeq]_vars

\* two sessions that save and activate models, and readers whose queries may
\* fall between any two of their steps
NextRaceRead == (\E p \in Procs : WriteStep(p, MaxRaceModels)) \/ Read
SpecRaceRead == Init /\ [][NextRaceRead]_vars

\* one session saves and activates models while the other runs cleanups, the
\* clock advances and models are loaded
NextCleanupRace ==
    \/ \E p \in OneProc : WriteStep(p, MaxRaceModels)
    \/ \E p \in Procs \ OneProc : CleanupStep(p)
    \/ Tick
    \/ \E t \in Families : LoadActiveModel(t)
SpecCleanupRace == Init /\ [][NextCleanupRace]_vars

\* one session saves and activates models; MLService instances load the
\* active model and predict
NextService ==
    \/ \E p \in OneProc : WriteStep(p, MaxRaceModels)
    \/ \E t \in Families : LoadActiveModel(t)
    \/ NewMLService
    \/ Predict
SpecService == Init /\ [][NextService]_vars

\* the training data arrives, training is requested over the API or by sending
\* the tasks, and one worker process runs the tasks step by step
JobStep(j) ==
    \/ \E p \in OneProc : TaskStart(j, p)
    \/ \E ok \in BOOLEAN : TaskLoadData(j, ok)
    \/ \E ok \in BOOLEAN : TaskEngineer(j, ok)
    \/ \E res \in PrepareResults : TaskPrepare(j, res)
    \/ \E ok \in BOOLEAN : TaskTune(j, ok)
    \/ \E res \in TrainResults : TaskTrain(j, res)
    \/ \E nm \in Ids : TaskSaveModel(j, nm)
    \/ \E f \in F1Values : TaskSaveCommit(j, f)
    \/ TaskReturn(j)
    \/ TaskExcept(j)
    \/ TaskRaise(j)

SessionStep(p) == SaveDump(p) \/ UpdateSnapshot(p) \/ UpdateApply(p)

NextJobs ==
    \/ \E n \in BatchSizes : SaveToDatabase(n) \/ InsertIncomplete(n)
    \/ \E t \in AllFamilies : StartModelTraining(t)
    \/ \E k \in TaskKinds, t \in AllFamilies : DelayTask(k, t, NoParams, MaxJobs)
    \/ \E j \in 1..MaxJobs : JobStep(j)
    \/ \E p \in OneProc : SessionStep(p)
SpecJobs == Init /\ [][NextJobs]_vars

\* POST /models/{id}/activate, step by step
ActivateStep(p) ==
    \/ \E mid \in Ids : CallActivate(p, mid)
    \/ UpdateSnapshot(p)
    \/ UpdateApply(p)
    \/ ActivateCommit(p)

\* training and optimization tasks run one after the other by one worker,
\* all of them on models/preprocessors, while an API session activates models
NextPreprocessors ==
    \/ \E n \in BatchSizes : SaveToDatabase(n)
    \/ \E k \in TaskKinds, t \in Families : DelayTask(k, t, NoParams, MaxPrepJobs)
    \/ \E j \in 1..MaxPrepJobs : JobStep(j)
    \/ \E p \in OneProc : SessionStep(p)
    \/ \E p \in Procs \ OneProc : ActivateStep(p)
SpecPreprocessors == Init /\ [][NextPreprocessors]_vars

\* DataProcessor instances, one after the other, fit and transform frames
NextPipeline ==
    \/ NewDataProcessor
    \/ \E df \in Frames, fit \in BOOLEAN : PrepareModelData(df, fit)
SpecPipeline == Init /\ [][NextPipeline]_vars

\* the same, with the preprocessors saved to and loaded from their directory
NextPipelineStore ==
    \/ NewDataProcessor
    \/ \E df \in FullFrames, fit \in BOOLEAN : PrepareModelData(df, fit)
    \/ \E res \in PrepareResults : SavePreprocessors(res)
    \/ LoadPreprocessors
SpecPipelineStore == Init /\ [][NextPipelineStore]_vars

\* raw frames are validated
NextValidate == \E df \in RawFrames : ValidateData(df)
SpecValidate == Init /\ [][NextValidate]_vars

\* validated frames are engineered
NextEngineer == \E df \in EngineerFrames : EngineerFeatures(df)
SpecEngineer == Init /\ [][NextEngineer]_vars

\* ------------------------------------------------------------ claims
NumActive(t) == Cardinality({i \in DOMAIN rows : rows[i].model_type = t /\ rows[i].active})
NumInactive(tbl, t) ==
    Cardinality({i \in DOMAIN tbl : tbl[i].model_type = t /\ ~tbl[i].active})

\* C1: when save_model and activate_model calls run one after the other, a
\* model type for which one of them has completed (a type that has rows: only
\* a completed save_model inserts one) has exactly one active artifact.
C1_OneActivePerType ==
    \A t \in Families :
        (\E i \in DOMAIN rows : rows[i].model_type = t) => NumActive(t) = 1

\* an activate_model call has just completed for a type with two other artifacts
C1_Witness ==
    /\ ret.op = "activate" /\ ret.outcome = "ok"
    /\ NumInactive(rows, ret.model_type) >= 2
    /\ NumActive(ret.model_type) = 1

\* C2: of two activate calls for the same type and different ids that overlap,
\* the one that commits second fails with ActivationConflict, and the type is
\* left with exactly one active artifact.
C2_LoserGetsConflict ==
    (ret.op = "activate" /\ ret.outcome # "NotFound" /\ ret.rivalWon) =>
        /\ ret.outcome = "ActivationConflict"
        /\ NumActive(ret.model_type) = 1

\* two activate calls that overlapped have both committed and the type has
\* two active artifacts
C2_Witness ==
    /\ ret.op = "activate" /\ ret.outcome = "ok" /\ ret.rivalWon
    /\ NumActive(ret.model_type) = 2

\* C3: a read that falls inside a save_model or activate_model call for a
\* type that had an active artifact when the call began sees exactly one
\* active artifact of that type.
C3_ReaderSeesOneActive ==
    /\ (ret.op = "list_models" /\ ret.during) => Cardinality(ret.ids) = 1
    /\ (ret.op = "load_active_model" /\ ret.during) => ret.result # "NoActiveRow"

\* a list_models read that fell inside a call finds two active artifacts of
\* the type
C3_Witness ==
    /\ ret.op = "list_models" /\ ret.during
    /\ Cardinality(ret.ids) = 2

\* the state C3 is about is never seen: a read that falls inside a call for a
\* type that had an active artifact finds at least one active artifact
C3_NeverNoneActive ==
    /\ (ret.op = "list_models" /\ ret.during) => ret.ids # {}
    /\ (ret.op = "load_active_model" /\ ret.during) => ret.result # "NoActiveRow"

\* C4: no step of a cleanup removes the row or the binary of an artifact that
\* is active when the step is taken.
C4_CleanupSparesActive ==
    [][(\E p \in Procs : call[p].op = "cleanup") =>
          \A i \in DOMAIN rows :
              rows[i].active =>
                  /\ i \in DOMAIN rows'
                  /\ rows[i].model_name \in files => rows[i].model_name \in files']_vars

\* a cleanup has just deleted something, and an active artifact older than the
\* cutoff, of the lowest F1, is still there with its binary
C4_Witness ==
    /\ ret.op = "cleanup" /\ ret.deleted # {}
    /\ \E i \in DOMAIN rows : /\ rows[i].active
                              /\ rows[i].created_at < ret.cutoff
                              /\ rows[i].f1_score = 1
                              /\ rows[i].model_name \in files
                              /\ \E j \in DOMAIN rows : rows[j].f1_score > 1

\* the step that commits session p's cleanup
CleanupCommits(p) ==
    call[p].op = "cleanup" /\ call[p].pc = "ccommit" /\ call'[p].op = "idle"

\* C5: a cleanup run with keep_best = k (the Celery task keeps none: k = 0)
\* leaves every type that had at least k inactive artifacts with at least k,
\* and deletes nothing of a type that had fewer.
C5_KeepBestFloor ==
    [][\A p \in Procs : CleanupCommits(p) =>
          \A t \in Families :
              LET b == NumInactive(rows, t)
                  a == NumInactive(rows', t)
                  k == call[p].keep_best
              IN /\ b >= k => a >= k
                 /\ b < k => a = b]_vars

\* the script has just deleted something with keep_best >= 1 and an inactive
\* artifact older than the cutoff was kept
C5_Witness ==
    /\ ret.op = "cleanup" /\ ret.kind = "script" /\ ret.keep_best >= 1
    /\ ret.deleted # {}
    /\ \E i \in DOMAIN rows : ~rows[i].active /\ rows[i].created_at < ret.cutoff

\* i ranks before j: higher F1, or equal F1 and created later
RanksBefore(tbl, i, j) ==
    \/ tbl[i].f1_score > tbl[j].f1_score
    \/ tbl[i].f1_score = tbl[j].f1_score /\ tbl[i].created_at > tbl[j].created_at

\* C6: the script deletes exactly the inactive artifacts older than the cutoff
\* that are not among the best keep_best of their type, ranking by F1
\* descending and, at equal F1, the newer first.
C6_DeletesAllButBest ==
    [][\A p \in Procs : (CleanupCommits(p) /\ call[p].kind = "script") =>
          LET c == call[p]
              deleted == DOMAIN rows \ DOMAIN rows'
              old == {i \in DOMAIN rows : ~rows[i].active /\ rows[i].created_at < c.cutoff}
          IN /\ deleted \subseteq old
             /\ \A t \in Families :
                  LET oldT == {i \in old : rows[i].model_type = t}
                      kept == oldT \ deleted
                  IN /\ Cardinality(kept) =
                          (IF Cardinality(oldT) < c.keep_best THEN Cardinality(oldT)
                           ELSE c.keep_best)
                     /\ \A d \in oldT \cap deleted, x \in kept : ~RanksBefore(rows, d, x)]_vars

\* C6 without the tie-break: at equal F1 either artifact may be the one kept
C6_DeletesAllButBestByF1 ==
    [][\A p \in Procs : (CleanupCommits(p) /\ call[p].kind = "script") =>
          LET c == call[p]
              deleted == DOMAIN rows \ DOMAIN rows'
              old == {i \in DOMAIN rows : ~rows[i].active /\ rows[i].created_at < c.cutoff}
          IN /\ deleted \subseteq old
             /\ \A t \in Families :
                  LET oldT == {i \in old : rows[i].model_type = t}
                      kept == oldT \ deleted
                  IN /\ Cardinality(kept) =
                          (IF Cardinality(oldT) < c.keep_best THEN Cardinality(oldT)
                           ELSE c.keep_best)
                     /\ \A d \in oldT \cap deleted, x \in kept :
                          rows[d].f1_score <= rows[x].f1_score]_vars

\* C7: a POST /train for a supported family that finds fewer than MIN_RECORDS
\* qualifying rows is answered with the insufficient-data error and enqueues
\* nothing, so that every job the endpoint created had at least MIN_RECORDS
\* qualifying rows when it was submitted.
C7_NoJobBelowThreshold ==
    /\ (/\ ret.op = "start_model_training"
        /\ ret.family \in Families
        /\ ret.qualifying < MIN_RECORDS)
          => (ret.outcome = "InsufficientData" /\ ~ret.enqueued)
    /\ \A j \in DOMAIN jobs :
          jobs[j].via = "api" => jobs[j].qualAtSubmit >= MIN_RECORDS

\* C8: a family outside Families is turned down before the data is counted,
\* loaded or split: POST /train answers it without counting and enqueues
\* nothing, and a task given one neither loads nor splits data nor saves a model.
C8_UnsupportedFamilyTouchesNoData ==
    /\ (ret.op = "start_model_training" /\ ret.family \notin Families)
          => (ret.outcome = "InvalidModelType" /\ ~ret.counted /\ ~ret.enqueued)
    /\ \A j \in DOMAIN jobs :
          jobs[j].family \notin Families =>
              /\ ~jobs[j].loaded
              /\ ~jobs[j].split
              /\ \A i \in 1..Len(jobs[j].done) : jobs[j].done[i] # "model saved"

\* train_model_task given an unsupported family has loaded the data, engineered
\* the features, written the preprocessors and split the data before
\* train_model raised
C8_Witness ==
    \E j \in DOMAIN jobs : /\ jobs[j].family \notin Families
                           /\ jobs[j].kind = "train"
                           /\ jobs[j].split
                           /\ jobs[j].state = "FAILURE"

\* POST /train has enqueued a task although fewer than MIN_RECORDS rows
\* qualified, and the task has failed on its own count
C7_Witness ==
    \E j \in DOMAIN jobs : /\ jobs[j].via = "api"
                           /\ jobs[j].qualAtSubmit < MIN_RECORDS
                           /\ jobs[j].state = "FAILURE"
                           /\ jobs[j].done = << >>

\* C9: the states written for a job are PROGRESS (RUNNING) zero or more times
\* after PENDING (QUEUED), then SUCCESS or FAILURE: the first write is
\* PROGRESS, and once a terminal state is written the state stays what it is.
C9_Lifecycle ==
    \A j \in DOMAIN jobs :
        LET w == jobs[j].writes IN
        /\ jobs[j].state = IF w = << >> THEN "PENDING" ELSE w[Len(w)].state
        /\ \A i \in 1..Len(w) : w[i].state \in {"PROGRESS", "SUCCESS", "FAILURE"}
        /\ w # << >> => w[1].state = "PROGRESS"
        /\ \A i \in 1..(Len(w) - 1) :
              w[i].state \in {"SUCCESS", "FAILURE"} => w[i + 1].state = w[i].state

\* a task has failed at its first step after the first progress write, and
\* both of its FAILURE writes are in
C9_Witness ==
    \E j \in DOMAIN jobs :
        /\ jobs[j].pc = "done" /\ jobs[j].state = "FAILURE"
        /\ Len(jobs[j].writes) = 3
        /\ jobs[j].writes[1].state = "PROGRESS"

Checkpoints == <<"data loaded", "features engineered", "model trained", "model saved">>

\* C10: of two consecutive progress writes of a job the second carries a
\* percentage at least as large as the first, and the checkpoints a job has
\* passed are an initial part of: data loaded, features engineered, model
\* trained, model saved.
C10_ProgressAndCheckpointsInOrder ==
    \A j \in DOMAIN jobs :
        LET w == jobs[j].writes
            d == jobs[j].done
        IN /\ \A i \in 1..(Len(w) - 1) :
                 (w[i].state = "PROGRESS" /\ w[i + 1].state = "PROGRESS")
                     => w[i].progress <= w[i + 1].progress
           /\ Len(d) <= Len(Checkpoints)
           /\ \A i \in 1..Len(d) : d[i] = Checkpoints[i]

\* a train_model_task has written its five percentages and passed the four
\* checkpoints
C10_Witness ==
    \E j \in DOMAIN jobs :
        /\ jobs[j].kind = "train"
        /\ jobs[j].done = Checkpoints
        /\ Len(jobs[j].writes) >= 5
        /\ jobs[j].progress = 90

\* the state writes of a job that are terminal
TerminalWrites(job) ==
    {i \in 1..Len(job.writes) : job.writes[i].state \in {"SUCCESS", "FAILURE"}}

\* C11: a job of which a step raised (data load, the count check, feature
\* engineering, model data preparation with the preprocessor save, tuning,
\* training, model save) goes from there straight to FAILURE: every state
\* written after the exception is FAILURE, no checkpoint is reached after it,
\* and once the exception has left the task the result backend holds FAILURE
\* with the class and the message of that exception.  A job that has ended is
\* never run again: nothing about it changes any more, a retry is a new job.
C11_RaiseFailsAndStays ==
    [][\A j \in DOMAIN jobs' :
         LET job == jobs'[j] IN
         /\ job.exc # NoExc =>
               /\ \A i \in (job.exc.after + 1)..Len(job.writes) :
                     job.writes[i].state = "FAILURE"
               /\ job.pc \in {"except", "raise", "done"}
               /\ job.pc = "done" =>
                     /\ job.state = "FAILURE"
                     /\ job.meta = [kind |-> job.exc.kind, msg |-> job.exc.msg]
         /\ (j \in DOMAIN jobs /\ jobs[j].exc # NoExc) =>
               /\ job.exc = jobs[j].exc
               /\ job.done = jobs[j].done
         /\ (j \in DOMAIN jobs /\ jobs[j].pc = "done") => job = jobs[j]]_vars

\* a training job whose fit raised has ended in FAILURE with that exception on
\* record, after three progress writes
C11_Witness ==
    \E j \in DOMAIN jobs :
        /\ jobs[j].kind = "train" /\ jobs[j].pc = "done"
        /\ jobs[j].exc.msg = "training" /\ jobs[j].exc.after = 4
        /\ jobs[j].state = "FAILURE" /\ jobs[j].meta.msg = "training"

\* C12: of every job at most one state write is terminal (SUCCESS or
\* FAILURE), and a terminal write is the last write of the job.
C12_TerminalWrittenOnce ==
    \A j \in DOMAIN jobs :
        /\ Cardinality(TerminalWrites(jobs[j])) <= 1
        /\ TerminalWrites(jobs[j]) \subseteq {Len(jobs[j].writes)}

\* a job that raised is done and the result backend was written FAILURE twice
C12_Witness ==
    \E j \in DOMAIN jobs :
        /\ jobs[j].pc = "done" /\ jobs[j].exc # NoExc
        /\ Cardinality(TerminalWrites(jobs[j])) = 2

\* C13: activate_model with an id that matches no artifact answers NotFound
\* (404 "Model not found") and changes nothing: the handler goes on to its
\* UPDATE only with the id of an existing row, and the step that answers
\* NotFound was given an unknown id and leaves every row (so every active
\* flag), every file and every call in progress as it was.
C13_UnknownIdChangesNothing ==
    [][/\ \A p \in Procs :
            (call[p].op = "idle" /\ call'[p].op = "activate") =>
                call'[p].id \in DOMAIN rows
       /\ (ret'.op = "activate" /\ ret'.outcome = "NotFound") =>
            /\ ret'.id \notin DOMAIN rows
            /\ rows' = rows /\ files' = files /\ call' = call]_vars

\* activate_model has answered NotFound while the table holds an active
\* artifact of each type
C13_Witness ==
    /\ ret.op = "activate" /\ ret.outcome = "NotFound"
    /\ ret.id \notin DOMAIN rows
    /\ \A t \in Families : NumActive(t) = 1

\* C14: load_active_model returns no model exactly when the type has no
\* active artifact or the binary of its active artifact is missing, and what
\* the caller gets in the missing-binary case differs from what it gets when
\* no artifact is active.
C14_MissingBinaryToldApart ==
    ret.op = "load_active_model" =>
        /\ ret.returned # "model" <=> ret.result \in {"NoActiveRow", "FileNotFound"}
        /\ ret.result = "FileNotFound" => ret.returned # Returned("NoActiveRow")

\* the binary of the active artifact is gone (a cleanup removed the file
\* while the artifact was being activated) and load_active_model returned
\* None, as it does when nothing is active
C14_Witness ==
    /\ ret.op = "load_active_model" /\ ret.result = "FileNotFound"
    /\ rows[ret.id].active /\ rows[ret.id].model_name \notin files
    /\ ret.returned = "None"

\* C15: whatever training tasks, optimization tasks and activate_model calls
\* have run, the preprocessors on disk (scaler and label encoders, which is
\* what is loaded beside the active model) are those fitted by the run that
\* produced the active model, for every type that has an active model a task
\* produced.
C15_PreprocessorsOfActiveModel ==
    \A t \in Families : \A i \in ActiveOfType(rows, t) :
        \A j \in DOMAIN jobs :
            jobs[j].model_id = i =>
                prep = [scaler |-> FittedBy(j), label_encoders |-> FittedBy(j)]

\* the model of the first training task is active, a second training task
\* has failed in its fit, and the directory holds what the second task fitted
C15_Witness ==
    /\ Len(jobs) = 2
    /\ jobs[1].kind = "train" /\ jobs[1].state = "SUCCESS"
    /\ jobs[1].model_id \in ActiveOfType(rows, jobs[1].family)
    /\ jobs[2].kind = "train" /\ jobs[2].pc = "done"
    /\ jobs[2].state = "FAILURE" /\ jobs[2].exc.msg = "training"
    /\ prep = [scaler |-> FittedBy(2), label_encoders |-> FittedBy(2)]

\* the pipeline state a frame gives when fitted on
FittedOn(p, df) ==
    /\ p.scaler = FitScaler(df)
    /\ \A c \in SeqRange(categorical_columns) \cap df.columns :
          c \in DOMAIN p.label_encoders /\ p.label_encoders[c] = Classes(df, c)

\* C16: when prepare_model_data(df, fit_encoders=True) has succeeded, the
\* call prepare_model_data(df, fit_encoders=False) that follows it on the
\* same frame and the same instance succeeds and returns the same X (same
\* cells in the same column order) and the same y.
C16_TransformReproducesFit ==
    [][(/\ out.op = "prepare_model_data" /\ out.fit_encoders
        /\ out.outcome = "ok"
        /\ out'.op = "prepare_model_data" /\ ~out'.fit_encoders
        /\ out'.df = out.df)
       => (out'.outcome = "ok" /\ out'.X = out.X /\ out'.y = out.y)]_vars

\* a transform has returned the matrix of a two-row frame, York before Kent,
\* on the state fitted on that frame: the counties are coded 1 and 0
C16_Witness ==
    /\ out.op = "prepare_model_data" /\ ~out.fit_encoders /\ out.outcome = "ok"
    /\ Len(out.df.rows) = 2 /\ FittedOn(proc, out.df)
    /\ out.X[1][1] = [code |-> 1] /\ out.X[2][1] = [code |-> 0]
    /\ out.y = <<1, 0>>

\* C17: a transform call, prepare_model_data(df, fit_encoders=False), leaves
\* the instance as it was, whether it returns or raises: the same set of
\* encoders, the same classes in each, the same scaler parameters.
C17_TransformKeepsState ==
    [][(out'.op = "prepare_model_data" /\ ~out'.fit_encoders) => proc' = proc]_vars

\* a transform on a fitted instance has raised for a label the encoder has
\* not seen
C17_Witness ==
    /\ out.op = "prepare_model_data" /\ ~out.fit_encoders
    /\ out.outcome = "ValueError"
    /\ proc.scaler.fitted
    /\ proc.label_encoders["county"] = <<"Kent">>

\* the categorical columns that are model inputs, and where they are in X
InputCategoricals == SeqRange(categorical_columns) \cap SeqRange(feature_columns)

\* C18: a transform on an instance that is not fitted, or that has no encoder
\* for one of the categorical model-input columns, raises; and no transform
\* returns a matrix in which a categorical column holds labels instead of
\* codes.
C18_NoUnencodedColumn ==
    (out.op = "prepare_model_data" /\ ~out.fit_encoders) =>
        /\ (~proc.scaler.fitted \/ InputCategoricals \ DOMAIN proc.label_encoders # {})
              => out.outcome # "ok"
        /\ out.outcome = "ok" =>
              \A i \in 1..Len(out.X) : \A k \in 1..Len(feature_columns) :
                  feature_columns[k] \in InputCategoricals =>
                      "code" \in DOMAIN out.X[i][k]

\* an instance that loaded the scaler but no encoders has transformed a
\* frame: the county column of the matrix holds the label
C18_Witness ==
    /\ out.op = "prepare_model_data" /\ ~out.fit_encoders /\ out.outcome = "ok"
    /\ proc.scaler.fitted /\ DOMAIN proc.label_encoders = {}
    /\ out.X[1][1] = [raw |-> "Kent"]

\* the labels the encoder of column c was fitted on, none without an encoder
SeenAtFit(p, c) ==
    IF c \in DOMAIN p.label_encoders THEN SeqRange(p.label_encoders[c]) ELSE {}

\* C19: a transform fails whenever the frame holds, in a categorical column,
\* a label that column did not hold in the fit data, and then gives no label
\* a code (it returns no matrix).
C19_UnseenCategoryRaises ==
    (/\ out.op = "prepare_model_data" /\ ~out.fit_encoders
     /\ \E c \in SeqRange(categorical_columns) \cap out.df.columns :
           SeqRange(Column(out.df, c)) \ SeenAtFit(proc, c) # {})
    => (out.outcome # "ok" /\ out.X = << >>)

\* an instance fitted on a frame without the cause column has transformed a
\* frame that has it, and the call returned
C19_Witness ==
    /\ out.op = "prepare_model_data" /\ ~out.fit_encoders /\ out.outcome = "ok"
    /\ "icd_10_113_cause_list" \in out.df.columns
    /\ "icd_10_113_cause_list" \notin DOMAIN proc.label_encoders
    /\ InputCategoricals \subseteq DOMAIN proc.label_encoders

\* where the column has an encoder, a label it has not seen makes the
\* transform raise ValueError
C19_EncoderRejectsUnseen ==
    (/\ out.op = "prepare_model_data" /\ ~out.fit_encoders
     /\ \E c \in Encoded(proc.label_encoders, out.df) :
           Unseen(proc.label_encoders[c], out.df, c) # {})
    => out.outcome = "ValueError"

\* C20: _validate_data drops exactly the rows that have a null in one of the
\* required columns, keeps every other row as it is and in order, and
\* reports how many rows it dropped.
C20_DropsRowsWithRequiredNull ==
    (out.op = "_validate_data" /\ out.outcome = "ok") =>
        LET complete(r) == ~HasNull(r, required_columns) IN
        /\ out.result = SelectSeq(out.df.rows, complete)
        /\ out.logged = Len(out.df.rows) - Len(out.result)

\* a row whose only empty cell is crude_rate was dropped
C20_Witness ==
    /\ out.op = "_validate_data" /\ out.outcome = "ok"
    /\ Len(out.df.rows) = 1 /\ out.df.rows[1].nulls = {"crude_rate"}
    /\ out.result = << >> /\ out.logged = 1

\* C21: _validate_data raises ValueError ("Missing required columns") for
\* every frame that lacks one of the eight required columns, and returns a
\* frame only when all eight are there.
C21_MissingColumnsRejected ==
    out.op = "_validate_data" =>
        (out.outcome = "ValueError" <=> ~(required_columns \subseteq out.df.columns))

\* a frame of two records without the county column was rejected
C21_Witness ==
    /\ out.op = "_validate_data" /\ out.outcome = "ValueError"
    /\ "county" \notin out.df.columns /\ Len(out.df.rows) = 2

\* C22: the 0.75-quantile threshold of high_mortality and the bucket edges of
\* mortality_category and population_density are frozen in the state of the
\* instance: two calls of engineer_features on the same instance state give
\* a record that is in both frames the same flag and the same two buckets,
\* whatever the other rows of each frame are.
C22_ThresholdsFrozen ==
    [][(/\ out.op = "engineer_features" /\ out.outcome = "ok"
        /\ out'.op = "engineer_features" /\ out'.outcome = "ok"
        /\ proc' = proc)
       => \A i \in 1..Len(out.df.rows), j \in 1..Len(out'.df.rows) :
             out.df.rows[i] = out'.df.rows[j] =>
                 /\ out'.result[j].high_mortality = out.result[i].high_mortality
                 /\ out'.result[j].mortality_category = out.result[i].mortality_category
                 /\ out'.result[j].population_density = out.result[i].population_density]_vars

\* a frame of two records has been engineered: its threshold lies between
\* the two rates, so one record is flagged and the other is not
C22_Witness ==
    /\ out.op = "engineer_features" /\ out.outcome = "ok"
    /\ Len(out.df.rows) = 2
    /\ out.result[1].high_mortality = 1 /\ out.result[2].high_mortality = 0
    /\ out.result[1].mortality_category = 5 /\ out.result[2].mortality_category = 1

\* C26: whenever engineer_features returns, the mortality_rate of every
\* record is deaths / population * 100000 of that record alone (250 for 25
\* deaths in 10000, 300 for 150 deaths in 50000), whatever the other rows are.
C26_MortalityRatePerRow ==
    (out.op = "engineer_features" /\ out.outcome = "ok") =>
        \A i \in 1..Len(out.df.rows) :
            LET r == out.df.rows[i]
                m == out.result[i].mortality_rate
            IN /\ m.num * r.population = m.den * r.deaths * 100000
               /\ (r.deaths = 25 /\ r.population = 10000) => m = [num |-> 250, den |-> 1]
               /\ (r.deaths = 150 /\ r.population = 50000) => m = [num |-> 300, den |-> 1]

\* the two records of the example have been engineered in one frame
C26_Witness ==
    /\ out.op = "engineer_features" /\ out.outcome = "ok"
    /\ Len(out.df.rows) = 2
    /\ out.df.rows[1].deaths = 25 /\ out.df.rows[1].population = 10000
    /\ out.df.rows[2].deaths = 150 /\ out.df.rows[2].population = 50000
    /\ out.result[1].mortality_rate = [num |-> 250, den |-> 1]
    /\ out.result[2].mortality_rate = [num |-> 300, den |-> 1]

\* C23: a failure of the experiment tracker during train_model does not fail
\* the job: no job whose exception came from an MLflow call ends in FAILURE.
C23_TrackerFailureNotFatal ==
    \A j \in DOMAIN jobs : jobs[j].exc.kind = "MlflowException" => jobs[j].state # "FAILURE"

\* a training job has fitted its model, mlflow.log_params has raised, and the
\* job is in FAILURE with that exception in its record and no model saved
C23_Witness ==
    \E j \in DOMAIN jobs :
        /\ jobs[j].kind = "train" /\ jobs[j].split
        /\ jobs[j].exc = [kind |-> "MlflowException", msg |-> "log_params", after |-> 4]
        /\ jobs[j].state = "FAILURE" /\ jobs[j].meta.kind = "MlflowException"
        /\ jobs[j].model_id = 0

\* C24: an accepted POST /train answers with the identifier of the job it
\* created, while that job is not finished: the id in the response is the id
\* of the task that was enqueued.
C24_SubmissionReturnsJobId ==
    (ret.op = "start_model_training" /\ ret.enqueued) =>
        /\ ret.task_id \in DOMAIN jobs
        /\ jobs[ret.task_id].state = "PENDING"
        /\ ret.response.model_id = ret.task_id

\* POST /train has enqueued task 1, which is still pending, and has answered
\* with model_id 0 and training_status "started"
C24_Witness ==
    /\ ret.op = "start_model_training" /\ ret.enqueued /\ ret.task_id = 1
    /\ jobs[1].state = "PENDING" /\ jobs[1].via = "api"
    /\ ret.response.model_id = 0 /\ ret.response.training_status = "started"

C27_FailedSaveChangesNothing ==
    (ret.op = "save" /\ ret.outcome # "ok") =>
        /\ ~ret.overwrote
        /\ ret.hadActive => ActiveOfType(rows, ret.model_type) # {}

\* save_model has been given the name of the active model of the other type:
\* the dump has replaced that model's binary, the INSERT has failed on the
\* unique name, and the row is still active and still points at the file
C27_Witness ==
    /\ ret.op = "save" /\ ret.outcome = "IntegrityError" /\ ret.overwrote
    /\ \E i \in DOMAIN rows :
          /\ rows[i].model_name = ret.model_name /\ rows[i].model_name \in files
          /\ rows[i].active /\ rows[i].model_type # ret.model_type

\* C28: with cleanup and activate_model interleaved, no step removes the
\* metadata row or the binary of an artifact that is active when the step
\* takes effect: a model that cleanup's query selected as inactive and that
\* was activated afterwards is kept.
C28_CleanupSparesActive ==
    [][\A i \in DOMAIN rows :
          rows[i].active =>
              /\ i \in DOMAIN rows'
              /\ rows[i].model_name \in files => rows[i].model_name \in files']_vars

\* a cleanup that selected a model while it was inactive has removed its
\* binary after the other session activated it, and goes on to delete the row
C28_Witness ==
    \E p \in Procs :
        /\ call[p].op = "cleanup" /\ call[p].pc = "ccommit"
        /\ \E m \in call[p].dels :
              /\ m \in DOMAIN rows /\ rows[m].active
              /\ ~call[p].loaded[m].active
              /\ rows[m].model_name \notin files

\* C29: a cleanup removes binary and row together: when a run has ended,
\* committed or failed part-way, no row that is still there has lost in the
\* run the binary it had before.
C29_RowsKeepTheirBinary ==
    ret.op \in {"cleanup", "cleanup_failed"} =>
        \A i \in DOMAIN rows : rows[i].model_name \notin ret.removed

\* the cleanup script has removed the binary of an inactive model and has
\* then failed: the rollback has kept the row, the file is gone
C29_Witness ==
    /\ ret.op = "cleanup_failed" /\ ret.kind = "script"
    /\ \E i \in DOMAIN rows :
          /\ rows[i].model_name \in ret.removed /\ rows[i].model_name \notin files
          /\ ~rows[i].active

\* C30: the hyperparameters recorded with every saved artifact are those the
\* model was constructed with in train_model, also when the caller sent none
\* and the defaults of the model type were used.
C30_RecordedAsConstructed ==
    \A j \in DOMAIN jobs : jobs[j].model_id # 0 => jobs[j].recorded = jobs[j].built_with

\* a training task that was sent no hyperparameters has saved a random
\* forest built with the four defaults and recorded {} with it
C30_Witness ==
    \E j \in DOMAIN jobs :
        /\ jobs[j].kind = "train" /\ jobs[j].hyperparameters = NoParams
        /\ jobs[j].model_id \in DOMAIN rows /\ jobs[j].state = "SUCCESS"
        /\ jobs[j].built_with = default_params("random_forest")
        /\ jobs[j].recorded = {}
====
